---- MODULE Spec2Model ----
(***************************************************************************)
(* Pepper Scattering (src/simulation.js): a lattice of particles joined by *)
(* breakable distance constraints, advanced by a fixed-step scheduler and  *)
(* perturbed by pointer input.  Candle and jar (src/candle-jar.js), an     *)
(* independent page, is modelled at the end of the program part.           *)
(*                                                                         *)
(* Numbers.  The source computes in IEEE doubles; the model computes in    *)
(* fixed point on integers, rounding every product to the nearest unit:    *)
(*   lengths        1 unit = 1/10 px          (24 px  -> 240)              *)
(*   times          1 unit = 1/3 ms           (1000/60 ms -> 50)           *)
(*   thresholds,    1 unit = 1/100            (1.8 -> 180, 0.35 -> 35)     *)
(*   stiffness                                                             *)
(*   accelerations  1 unit = 1 px/s^2                                      *)
(*   Math.random()  u = U / RandLevels, U in 0 .. RandLevels-1             *)
(* The lattice is scaled down from 52 x 34 to 3 x 3 (one free particle in  *)
(* a ring of pinned ones), and SETTINGS.maxBreaksPerStep from 200         *)
(* to maxBreaksPerStep below, so that the cap can be reached.              *)
(* Time.  One clock, `now`, stands for performance.now() and for the frame  *)
(* timestamp: it advances when a frame is delivered, and every reading     *)
(* inside a handler returns the same value.                                *)
(***************************************************************************)
EXTENDS Integers, Sequences, FiniteSets, TLC

VARIABLES
    grid,           \* SETTINGS.gridCols / gridRows: [cols, rows]
    canvas,         \* canvas.width / canvas.height: [width, height]
    particles,      \* let particles
    constraints,    \* let constraints
    pulses,         \* let pulses
    showLinks,      \* let showLinks
    lastTimestamp,  \* let lastTimestamp
    accumulatedMs,  \* let accumulatedMs
    isPointerDown,  \* let isPointerDown
    now,            \* the clock: performance.now() and the frame timestamp
    \* observation of the run (no counterpart in the code)
    lastOp,         \* the handler that ran last
    frame,          \* what the last animate() did: its ticks and their passes
    screen,         \* what the last render() drew and displayed
    weakCalls,      \* the markWeak calls applied to a fresh constraint
    scenario,       \* the single-stretch scenario a run started from (none in the program)
    \* src/candle-jar.js
    state,          \* let state: candles, jar, oxygenInside, isLit, speed
    lastTs,         \* let lastTs
    controls,       \* the values of the candleCount, jarDiameter and speed inputs
    burn,           \* what step(dt) did, if it ran last (observation)
    nFrames, nEvents, stepsSinceBuild

vars == <<grid, canvas, particles, constraints, pulses, showLinks, lastTimestamp,
          accumulatedMs, isPointerDown, now, lastOp, frame, screen, weakCalls,
          scenario, state, lastTs, controls, burn, nFrames, nEvents, stepsSinceBuild>>

----------------------------------------------------------------------------
(* Bounds of the exploration *)

MaxFrames == 3
MaxEvents == 2
MaxWeakCalls == 2
\* SETTINGS.maxBreaksPerStep, scaled down from 200 with the lattice
maxBreaksPerStep == 2
\* quantisation of Math.random(): u = U / RandLevels
RandLevels == 4

----------------------------------------------------------------------------
(* Simulation parameters, in the model's units *)

SETTINGS ==
    [ constraintIterations  |-> 3,
      structuralStiffness   |-> 35,      \* 0.35
      shearStiffness        |-> 25,      \* 0.25
      damping               |-> 35,      \* 0.0035, in 1/10000
      jitterAcceleration    |-> 3,       \* px/s^2
      gravityY              |-> 0,
      pulseStrength         |-> 3000,    \* px/s^2
      pulseSigma            |-> 900,     \* 90 px
      pulseHalfLifeMs       |-> 1950,    \* 650 ms
      borderPadding         |-> 240,     \* 24 px
      breakThreshold        |-> 180,     \* 1.8
      minWeakThreshold      |-> 118,     \* 1.18
      clickTearRadius       |-> 600,     \* 60 px
      clickInnerBreakRadius |-> 240,     \* 24 px
      weakenFactor          |-> 85,      \* 0.85
      weakenDurationMs      |-> 1350,    \* 450 ms
      tearImpulse           |-> 360,     \* 36 px
      maxBreaksPerStep      |-> maxBreaksPerStep ]

\* const fixedDt = 1000 / 60 (ms), in thirds of a millisecond
fixedDt == 3000 \div 60
\* const maxFrameMs = 1000 / 20 (ms), in thirds of a millisecond
maxFrameMs == 3000 \div 20

\* null, the weakThreshold of a constraint never weakened (a stored threshold
\* is at least minWeakThreshold, so never this value)
NULL == -1

----------------------------------------------------------------------------
(* Arithmetic *)

Abs(a) == IF a < 0 THEN -a ELSE a
Max(a, b) == IF a >= b THEN a ELSE b
Min(a, b) == IF a <= b THEN a ELSE b

\* a / b rounded to the nearest integer, halves away from zero (b > 0)
RDiv(a, b) == IF a >= 0 THEN (2 * a + b) \div (2 * b) ELSE -((2 * (-a) + b) \div (2 * b))

\* a / b cut toward zero (b > 0)
TDiv(a, b) == IF a >= 0 THEN a \div b ELSE -((-a) \div b)

\* a / b for any sign of b; a / 0 is taken only where the source divides 0 by
\* its epsilon (1e-6), which gives 0
Quot(a, b) == IF b = 0 THEN 0 ELSE IF b > 0 THEN RDiv(a, b) ELSE -RDiv(a, -b)

RECURSIVE SqrtSearch(_, _, _)
\* the largest r in lo .. hi with r * r <= n
SqrtSearch(n, lo, hi) ==
    IF lo >= hi THEN lo
    ELSE LET mid == (lo + hi + 1) \div 2
         IN  IF mid * mid <= n THEN SqrtSearch(n, mid, hi) ELSE SqrtSearch(n, lo, mid - 1)

\* Math.hypot, cut to the unit: it lies between the longer leg and the legs' sum
Hypot(dx, dy) == SqrtSearch(dx * dx + dy * dy, Max(Abs(dx), Abs(dy)), Abs(dx) + Abs(dy))

\* const clamp = (v, lo, hi) => (v < lo ? lo : v > hi ? hi : v)
clamp(v, lo, hi) == IF v < lo THEN lo ELSE IF v > hi THEN hi ELSE v

\* `dist > bound` where dist = Math.hypot(..) || 1e-6: a zero distance stands
\* for the epsilon, which exceeds every bound that is not positive
DistExceeds(dist, bound) == IF dist = 0 THEN bound <= 0 ELSE dist > bound

\* 1000 * Math.exp(-x / 1000), by 2^(-x / ln 2) with the fraction interpolated
ExpNeg(x) ==
    LET y == (x * 1443) \div 1000
        q == y \div 1000
        f == y % 1000
    IN  IF q >= 20 THEN 0 ELSE ((1000 * (2000 - f)) \div 2000) \div (2 ^ q)

\* the k-th Math.random() of a handler whose generator is in state `seed`:
\* the base-RandLevels digits of the seed, repeated
Rand(seed, k) == (seed \div (RandLevels ^ (k % 3))) % RandLevels

\* const randRange = (lo, hi) => lo + Math.random() * (hi - lo), with u = U / RandLevels
randRange(lo, hi, U) == RDiv(lo * RandLevels + U * (hi - lo), RandLevels)

----------------------------------------------------------------------------
(* class Particle *)

\* constructor(x, y, pinned): previous = position + randRange(-0.25, 0.25),
\* drawn in hundredths of a pixel and cut to the length unit
Particle(x, y, pinned, U1, U2) ==
    [ positionX |-> x, positionY |-> y,
      previousX |-> x + TDiv(randRange(-25, 25, U1), 10),
      previousY |-> y + TDiv(randRange(-25, 25, U2), 10),
      accelX |-> 0, accelY |-> 0,
      pinned |-> pinned ]

addForce(p, ax, ay) == [p EXCEPT !.accelX = @ + ax, !.accelY = @ + ay]

\* accel * dtSeconds^2 as a length: dtSeconds = dtMs / 3000 time units,
\* 1 px = 10 length units
AccelStep(accel, dtMs) == RDiv(accel * 10 * dtMs * dtMs, 9000000)

verletStep(p, dtMs, damping) ==
    IF p.pinned
    THEN [p EXCEPT !.previousX = p.positionX, !.previousY = p.positionY,
                   !.accelX = 0, !.accelY = 0]
    ELSE LET nextX == p.positionX + RDiv((p.positionX - p.previousX) * (10000 - damping), 10000)
                      + AccelStep(p.accelX, dtMs)
             nextY == p.positionY + RDiv((p.positionY - p.previousY) * (10000 - damping), 10000)
                      + AccelStep(p.accelY, dtMs)
         IN  [p EXCEPT !.previousX = p.positionX, !.previousY = p.positionY,
                       !.positionX = nextX, !.positionY = nextY,
                       !.accelX = 0, !.accelY = 0]

----------------------------------------------------------------------------
(* class DistanceConstraint; a and b are indices into particles *)

DistanceConstraint(particleA, particleB, restLength, stiffness) ==
    [ a |-> particleA, b |-> particleB, rest |-> restLength, stiffness |-> stiffness,
      breakThresholdBase |-> SETTINGS.breakThreshold,
      weakUntilTs |-> 0, weakThreshold |-> NULL, broken |-> FALSE ]

getCurrentBreakThreshold(c, nowTs) ==
    IF nowTs <= c.weakUntilTs /\ c.weakThreshold # NULL THEN c.weakThreshold
    ELSE c.breakThresholdBase

\* markWeak without the floor
markWeak_NoClamp(c, tempThreshold, untilTs) ==
    [c EXCEPT !.weakThreshold = IF c.weakThreshold = NULL THEN tempThreshold
                                ELSE IF tempThreshold < c.weakThreshold THEN tempThreshold ELSE @,
              !.weakUntilTs = Max(c.weakUntilTs, untilTs)]

\* markWeak that overwrites the expiry
markWeak_LastExpiry(c, tempThreshold, untilTs) ==
    [c EXCEPT !.weakThreshold = IF c.weakThreshold = NULL
                                THEN Max(tempThreshold, SETTINGS.minWeakThreshold)
                                ELSE IF Max(tempThreshold, SETTINGS.minWeakThreshold) < c.weakThreshold
                                THEN Max(tempThreshold, SETTINGS.minWeakThreshold) ELSE @,
              !.weakUntilTs = untilTs]

markWeak(c, tempThreshold, untilTs) ==
    LET clamped == Max(tempThreshold, SETTINGS.minWeakThreshold)
    IN  [c EXCEPT !.weakThreshold = IF c.weakThreshold = NULL THEN clamped
                                    ELSE IF clamped < c.weakThreshold THEN clamped ELSE @,
                  !.weakUntilTs = Max(c.weakUntilTs, untilTs)]

midpoint(c, ps) ==
    [ x |-> RDiv(ps[c.a].positionX + ps[c.b].positionX, 2),
      y |-> RDiv(ps[c.a].positionY + ps[c.b].positionY, 2) ]

\* the separation impulse of forceBreak on constraint c, whose endpoints are
\* (dx, dy) and dist apart: the particles after it
TearImpulse(c, ps, dx, dy, dist) ==
    LET push == SETTINGS.tearImpulse
    IN  IF ~ps[c.a].pinned /\ ~ps[c.b].pinned
        THEN [ps EXCEPT ![c.a].positionX = @ - Quot(dx * push, 2 * dist),
                        ![c.a].positionY = @ - Quot(dy * push, 2 * dist),
                        ![c.b].positionX = @ + Quot(dx * push, 2 * dist),
                        ![c.b].positionY = @ + Quot(dy * push, 2 * dist)]
        ELSE IF ps[c.a].pinned /\ ~ps[c.b].pinned
        THEN [ps EXCEPT ![c.b].positionX = @ + Quot(dx * push, dist),
                        ![c.b].positionY = @ + Quot(dy * push, dist)]
        ELSE IF ~ps[c.a].pinned /\ ps[c.b].pinned
        THEN [ps EXCEPT ![c.a].positionX = @ - Quot(dx * push, dist),
                        ![c.a].positionY = @ - Quot(dy * push, dist)]
        ELSE ps

\* forceBreak() of constraints[i]: the world after it
forceBreak(w, i) ==
    LET c == w.constraints[i]
        dx == w.particles[c.b].positionX - w.particles[c.a].positionX
        dy == w.particles[c.b].positionY - w.particles[c.a].positionY
    IN  IF c.broken THEN w
        ELSE [ particles   |-> TearImpulse(c, w.particles, dx, dy, Hypot(dx, dy)),
               constraints |-> [w.constraints EXCEPT ![i].broken = TRUE] ]

\* the proportional correction of satisfy on constraint c, whose endpoints are
\* (dx, dy) and dist apart: the particles after it
Correct(c, ps, dx, dy, dist) ==
    LET k == c.stiffness
        num == dist - c.rest
    IN  IF ~ps[c.a].pinned /\ ~ps[c.b].pinned
        THEN [ps EXCEPT ![c.a].positionX = @ + Quot(dx * k * num, 200 * dist),
                        ![c.a].positionY = @ + Quot(dy * k * num, 200 * dist),
                        ![c.b].positionX = @ - Quot(dx * k * num, 200 * dist),
                        ![c.b].positionY = @ - Quot(dy * k * num, 200 * dist)]
        ELSE IF ps[c.a].pinned /\ ~ps[c.b].pinned
        THEN [ps EXCEPT ![c.b].positionX = @ - Quot(dx * k * num, 100 * dist),
                        ![c.b].positionY = @ - Quot(dy * k * num, 100 * dist)]
        ELSE IF ~ps[c.a].pinned /\ ps[c.b].pinned
        THEN [ps EXCEPT ![c.a].positionX = @ + Quot(dx * k * num, 100 * dist),
                        ![c.a].positionY = @ + Quot(dy * k * num, 100 * dist)]
        ELSE ps

\* the distance between the endpoints of c
EndpointDist(c, ps) ==
    Hypot(ps[c.b].positionX - ps[c.a].positionX, ps[c.b].positionY - ps[c.a].positionY)

\* satisfy that compares the distance with the rest length alone
satisfyAt_NoThreshold(w, i, threshold, dist) ==
    LET c == w.constraints[i]
        dx == w.particles[c.b].positionX - w.particles[c.a].positionX
        dy == w.particles[c.b].positionY - w.particles[c.a].positionY
    IN  IF DistExceeds(dist, c.rest)
        THEN [world |-> forceBreak(w, i), ok |-> FALSE, dist |-> dist]
        ELSE [world |-> [w EXCEPT !.particles = Correct(c, w.particles, dx, dy, dist)],
              ok |-> TRUE, dist |-> dist]

\* satisfy from its test on: dist > this.rest * threshold (thresholds in
\* hundredths) breaks, anything else corrects
satisfyAt(w, i, threshold, dist) ==
    LET c == w.constraints[i]
        dx == w.particles[c.b].positionX - w.particles[c.a].positionX
        dy == w.particles[c.b].positionY - w.particles[c.a].positionY
    IN  IF DistExceeds(100 * dist, c.rest * threshold)
        THEN [world |-> forceBreak(w, i), ok |-> FALSE, dist |-> dist]
        ELSE [world |-> [w EXCEPT !.particles = Correct(c, w.particles, dx, dy, dist)],
              ok |-> TRUE, dist |-> dist]

\* satisfy(nowTs) of constraints[i]: the world after it, its return value, and
\* the distance it measured
satisfy(w, i, nowTs) ==
    IF w.constraints[i].broken THEN [world |-> w, ok |-> FALSE, dist |-> 0]
    ELSE satisfyAt(w, i, getCurrentBreakThreshold(w.constraints[i], nowTs),
                   EndpointDist(w.constraints[i], w.particles))

----------------------------------------------------------------------------
(* buildGrid *)

\* particleAt(i, j), as an index into particles (from 1)
particleAt(i, j, cols) == j * cols + i + 1

\* the constraints buildGrid pushes for cell (i, j), in its order
CellConstraints(i, j, cols, rows, cellW, cellH) ==
    (IF i < cols - 1
     THEN <<DistanceConstraint(particleAt(i, j, cols), particleAt(i + 1, j, cols),
                               cellW, SETTINGS.structuralStiffness)>>
     ELSE <<>>)
    \o (IF j < rows - 1
        THEN <<DistanceConstraint(particleAt(i, j, cols), particleAt(i, j + 1, cols),
                                  cellH, SETTINGS.structuralStiffness)>>
        ELSE <<>>)
    \o (IF i < cols - 1 /\ j < rows - 1
        THEN <<DistanceConstraint(particleAt(i, j, cols), particleAt(i + 1, j + 1, cols),
                                  Hypot(cellW, cellH), SETTINGS.shearStiffness)>>
        ELSE <<>>)
    \o (IF i > 0 /\ j < rows - 1
        THEN <<DistanceConstraint(particleAt(i, j, cols), particleAt(i - 1, j + 1, cols),
                                  Hypot(cellW, cellH), SETTINGS.shearStiffness)>>
        ELSE <<>>)

RECURSIVE GridConstraints(_, _, _, _, _)
\* the constraints of cells n, n+1, ... in row-major order
GridConstraints(n, cols, rows, cellW, cellH) ==
    IF n >= cols * rows THEN <<>>
    ELSE CellConstraints(n % cols, n \div cols, cols, rows, cellW, cellH)
         \o GridConstraints(n + 1, cols, rows, cellW, cellH)

\* buildGrid(): the particles and constraints it leaves.  No loop body runs
\* when cols or rows is not positive.  (cols = 1 or rows = 1 divides by zero:
\* the cell size is Infinity or NaN, which the model's numbers do not hold.)
buildGrid(cols, rows, width, height, seed) ==
    LET pad == SETTINGS.borderPadding
        gridWidth == width - pad * 2
        gridHeight == height - pad * 2
        cellW == Quot(gridWidth, cols - 1)
        cellH == Quot(gridHeight, rows - 1)
        isBoundary(i, j) == i = 0 \/ j = 0 \/ i = cols - 1 \/ j = rows - 1
    IN  IF cols <= 0 \/ rows <= 0
        THEN [particles |-> <<>>, constraints |-> <<>>]
        ELSE [ particles |->
                 [n \in 1 .. cols * rows |->
                    LET i == (n - 1) % cols
                        j == (n - 1) \div cols
                    IN  Particle(pad + i * cellW, pad + j * cellH, isBoundary(i, j),
                                 Rand(seed, 2 * (n - 1)), Rand(seed, 2 * (n - 1) + 1))],
               constraints |-> GridConstraints(0, cols, rows, cellW, cellH) ]

----------------------------------------------------------------------------
(* pulses *)

\* addPulse(x, y, strength)
addPulse(ps, x, y, strength, nowT) ==
    Append(ps, [x |-> x, y |-> y, strength |-> strength,
                sigma |-> SETTINGS.pulseSigma, createdAt |-> nowT])

\* a pulse loop whose epsilon guard pushes a particle at the pulse's origin
\* along x with the full magnitude
PulseAccel_PushAtOrigin(pu, p, nowT) ==
    LET age == nowT - pu.createdAt
        decay == ExpNeg(RDiv(693 * age, SETTINGS.pulseHalfLifeMs))
        base == RDiv(pu.strength * decay, 1000)
        dx == p.positionX - pu.x
        dy == p.positionY - pu.y
        falloff == ExpNeg(RDiv(dx * dx + dy * dy, (2 * pu.sigma * pu.sigma) \div 1000))
        r == Hypot(dx, dy)
        mag == RDiv(base * falloff, 1000)
    IN  IF r = 0 THEN <<mag, 0>> ELSE <<Quot(dx * mag, r), Quot(dy * mag, r)>>

\* the (ax, ay) one pulse adds to one particle in stepSimulation
PulseAccel(pu, p, nowT) ==
    LET halfLife == SETTINGS.pulseHalfLifeMs
        age == nowT - pu.createdAt
        decay == ExpNeg(RDiv(693 * age, halfLife))      \* exp(-ln 2 / halfLife * age)
        base == RDiv(pu.strength * decay, 1000)
        twoSigma2 == 2 * pu.sigma * pu.sigma
        dx == p.positionX - pu.x
        dy == p.positionY - pu.y
        r2 == dx * dx + dy * dy
        falloff == ExpNeg(RDiv(r2, twoSigma2 \div 1000))
        r == Hypot(dx, dy)                              \* Math.sqrt(r2) + 1e-6
        mag == RDiv(base * falloff, 1000)
    IN  <<Quot(dx * mag, r), Quot(dy * mag, r)>>

RECURSIVE PulseSum(_, _, _, _)
\* the acceleration pulses k, k+1, ... add to particle p
PulseSum(pus, k, p, nowT) ==
    IF k > Len(pus) THEN <<0, 0>>
    ELSE LET one == PulseAccel(pus[k], p, nowT)
             rest == PulseSum(pus, k + 1, p, nowT)
         IN  <<one[1] + rest[1], one[2] + rest[2]>>

\* the cull whose result is not assigned: every pulse stays
CullPulses_KeepAll(pus, nowT) == pus

\* pulses.filter(pu => now - pu.createdAt < halfLife * 6)
CullPulses(pus, nowT) ==
    SelectSeq(pus, LAMBDA pu : nowT - pu.createdAt < SETTINGS.pulseHalfLifeMs * 6)

----------------------------------------------------------------------------
(* stepSimulation *)

\* the gravity and jitter loop of stepSimulation: the draws of particle n in
\* the tick whose first draw is number `first`
Jitter(ps, seed, first) ==
    [n \in DOMAIN ps |->
        IF ps[n].pinned THEN ps[n]
        ELSE addForce(IF SETTINGS.gravityY # 0 THEN addForce(ps[n], 0, SETTINGS.gravityY)
                      ELSE ps[n],
                      randRange(-SETTINGS.jitterAcceleration, SETTINGS.jitterAcceleration,
                                Rand(seed, first + 2 * (n - 1))),
                      randRange(-SETTINGS.jitterAcceleration, SETTINGS.jitterAcceleration,
                                Rand(seed, first + 2 * (n - 1) + 1)))]

\* addForce(ax, ay) with the pair a pulse loop computed
addPair(p, pa) == addForce(p, pa[1], pa[2])

\* the pulse loop of stepSimulation: every live pulse pushes every free particle
PulseForces(ps, pus, nowT) ==
    [n \in DOMAIN ps |->
        IF ps[n].pinned THEN ps[n] ELSE addPair(ps[n], PulseSum(pus, 1, ps[n], nowT))]

\* verletStep, then the bounds clamp, of one particle
IntegrateOne(q, width, height) ==
    [q EXCEPT !.positionX = clamp(q.positionX, SETTINGS.borderPadding,
                                  width - SETTINGS.borderPadding),
              !.positionY = clamp(q.positionY, SETTINGS.borderPadding,
                                  height - SETTINGS.borderPadding)]

\* the integration loop of stepSimulation
Integrate(ps, dtMs, width, height) ==
    [n \in DOMAIN ps |-> IntegrateOne(verletStep(ps[n], dtMs, SETTINGS.damping), width, height)]

\* what a pass has seen of constraint c when satisfy ran on it
Seen(i, c, r) ==
    [ i |-> i, rest |-> c.rest, base |-> c.breakThresholdBase,
      weakThreshold |-> c.weakThreshold, weakUntilTs |-> c.weakUntilTs,
      dist |-> r.dist, broke |-> r.world.constraints[i].broken ]

\* the loop body without the `if (breaks >= SETTINGS.maxBreaksPerStep) break`
PassSeen_NoCap(st, i, c, r) ==
    [ world |-> r.world,
      breaks |-> IF r.ok THEN st.breaks ELSE st.breaks + 1,
      reached |-> st.reached,
      evals |-> Append(st.evals, Seen(i, c, r)),
      done |-> FALSE ]

\* the loop body after `const ok = c.satisfy(nowTs)` returned r: breaks++ when
\* it is false, and the loop is left when breaks >= SETTINGS.maxBreaksPerStep
PassSeen(st, i, c, r) ==
    [ world |-> r.world,
      breaks |-> IF r.ok THEN st.breaks ELSE st.breaks + 1,
      reached |-> IF ~r.ok /\ st.breaks + 1 >= SETTINGS.maxBreaksPerStep THEN i ELSE st.reached,
      evals |-> Append(st.evals, Seen(i, c, r)),
      done |-> ~r.ok /\ st.breaks + 1 >= SETTINGS.maxBreaksPerStep ]

\* the inner loop body without `if (c.broken) continue`
PassOne_NoSkip(st, i, nowTs) ==
    PassSeen(st, i, st.world.constraints[i], satisfy(st.world, i, nowTs))

\* one turn of the inner loop, on constraints[i]
PassOne(st, i, nowTs) ==
    IF st.world.constraints[i].broken THEN st
    ELSE PassSeen(st, i, st.world.constraints[i], satisfy(st.world, i, nowTs))

RECURSIVE PassLoop(_, _, _)
\* the inner loop of one relaxation pass from constraint i on: the world, the
\* breaks so far, the index at which the loop was left (the length when it ran
\* to the end), and what satisfy saw of every constraint it ran on
PassLoop(st, i, nowTs) ==
    IF i > Len(st.world.constraints) \/ st.done THEN st
    ELSE PassLoop(PassOne(st, i, nowTs), i + 1, nowTs)

\* one relaxation pass over the world w
Pass(w, nowTs) ==
    PassLoop([world |-> w, breaks |-> 0, reached |-> Len(w.constraints), evals |-> <<>>,
              done |-> FALSE], 1, nowTs)

\* the fields of the constraints that the program assigns after construction
Flags(cs) ==
    [i \in DOMAIN cs |-> [broken |-> cs[i].broken, weakThreshold |-> cs[i].weakThreshold,
                          weakUntilTs |-> cs[i].weakUntilTs]]

\* the record of one pass: its breaks, where it stopped, the constraints before
\* and after it, and what it saw
PassRecord(before, r) ==
    [ breaks |-> r.breaks, reached |-> r.reached, before |-> Flags(before),
      after |-> Flags(r.world.constraints), evals |-> r.evals ]

RECURSIVE Relax(_, _, _, _)
RECURSIVE RelaxNext(_, _, _, _, _)

\* passes k, k+1, ... of the relaxation: the world after them and each pass's record
Relax(w, k, nowTs, passes) ==
    IF k >= SETTINGS.constraintIterations THEN [world |-> w, passes |-> passes]
    ELSE RelaxNext(w.constraints, k, nowTs, passes, Pass(w, nowTs))

RelaxNext(before, k, nowTs, passes, r) ==
    Relax(r.world, k + 1, nowTs, Append(passes, PassRecord(before, r)))

\* the tick without its filter: broken constraints stay in the list
RemoveBroken_Keep(cs) == cs

\* constraints.filter(c => !c.broken)
RemoveBroken(cs) == IF Len(cs) # 0 THEN SelectSeq(cs, LAMBDA c : ~c.broken) ELSE cs

\* the positions of the particles
Positions(ps) == [n \in DOMAIN ps |-> <<ps[n].positionX, ps[n].positionY>>]

\* the end of stepSimulation: the particles, constraints and pulses it leaves,
\* and a record of what it did.  `jittered` are the particles after the jitter
\* loop, `forced` after the pulse loop, `moved` after integration, `alone` the
\* same integration without the pulse loop, `relaxed` the outcome of the passes
StepResult(ps, pus, live, dtMs, nowT, jittered, forced, moved, alone, relaxed) ==
    [ particles |-> relaxed.world.particles,
      constraints |-> RemoveBroken(relaxed.world.constraints),
      pulses |-> live,
      log |-> [ dtMs |-> dtMs,
                nowTs |-> nowT,
                pulsesBefore |-> pus,
                pulsesLive |-> live,
                start |-> Positions(ps),
                pulseAccel |-> [n \in DOMAIN ps |->
                                  <<forced[n].accelX - jittered[n].accelX,
                                    forced[n].accelY - jittered[n].accelY>>],
                integrated |-> Positions(moved),
                integratedNoPulse |-> Positions(alone),
                passes |-> relaxed.passes ] ]

\* stepSimulation after integration
StepRelax(ps, cs, pus, live, dtMs, nowT, jittered, forced, moved, alone) ==
    StepResult(ps, pus, live, dtMs, nowT, jittered, forced, moved, alone,
               Relax([particles |-> moved, constraints |-> cs], 0, nowT, <<>>))

\* stepSimulation after the force loops
StepIntegrate(ps, cs, pus, live, dtMs, nowT, width, height, jittered, forced) ==
    StepRelax(ps, cs, pus, live, dtMs, nowT, jittered, forced,
              Integrate(forced, dtMs, width, height),
              Integrate(jittered, dtMs, width, height))

\* stepSimulation after the jitter loop and the cull
StepForces(ps, cs, pus, live, dtMs, nowT, width, height, jittered) ==
    StepIntegrate(ps, cs, pus, live, dtMs, nowT, width, height, jittered,
                  PulseForces(jittered, live, nowT))

\* stepSimulation(dtMs) at clock nowT, its Math.random() calls numbered from `first`
stepSimulation(ps, cs, pus, dtMs, nowT, width, height, seed, first) ==
    StepForces(ps, cs, pus, CullPulses(pus, nowT), dtMs, nowT, width, height,
               Jitter(ps, seed, first))

----------------------------------------------------------------------------
(* render and animate *)

\* what render() reads: the links it strokes (none when links are hidden) and
\* the counts it writes to the stats label
render(ps, cs, links) ==
    [ drawn |-> TRUE,
      links |-> IF links THEN cs ELSE <<>>,
      particleCount |-> Len(ps),
      linkCount |-> Len(cs) ]

RECURSIVE StepLoop(_, _, _, _, _, _, _)
RECURSIVE StepLoopNext(_, _, _, _, _, _, _)

\* while (accumulatedMs > fixedDt): a full step left in the accumulator
StepLoop_Strict(st, acc, nowT, width, height, seed, ticks) ==
    IF acc > fixedDt
    THEN StepLoopNext(acc, nowT, width, height, seed, ticks,
                      stepSimulation(st.particles, st.constraints, st.pulses, fixedDt, nowT,
                                     width, height, seed, 2 * Len(st.particles) * Len(ticks)))
    ELSE [state |-> st, accumulatedMs |-> acc, ticks |-> ticks]

\* while (accumulatedMs >= fixedDt) { stepSimulation(fixedDt); accumulatedMs -= fixedDt; }
StepLoop(st, acc, nowT, width, height, seed, ticks) ==
    IF acc >= fixedDt
    THEN StepLoopNext(acc, nowT, width, height, seed, ticks,
                      stepSimulation(st.particles, st.constraints, st.pulses, fixedDt, nowT,
                                     width, height, seed, 2 * Len(st.particles) * Len(ticks)))
    ELSE [state |-> st, accumulatedMs |-> acc, ticks |-> ticks]

\* the loop body after stepSimulation returned r
StepLoopNext(acc, nowT, width, height, seed, ticks, r) ==
    StepLoop([particles |-> r.particles, constraints |-> r.constraints, pulses |-> r.pulses],
             acc - fixedDt, nowT, width, height, seed, Append(ticks, r.log))

----------------------------------------------------------------------------
(* weakenConstraintsNear *)

\* Math.random() < 0.12 + 0.30 * t with t = 1 - d / inner, u = U / RandLevels
ChanceBreak(U, d, inner) == U * 100 * inner < RandLevels * (12 * inner + 30 * (inner - d))

\* const weakThr = SETTINGS.breakThreshold * SETTINGS.weakenFactor
WeakThr == RDiv(SETTINGS.breakThreshold * SETTINGS.weakenFactor, 100)

\* Math.hypot(m.x - x, m.y - y) for the midpoint m of c
MidDist(c, ps, x, y) == Hypot(midpoint(c, ps).x - x, midpoint(c, ps).y - y)

\* the loop body with the `aggressive &&` test dropped
WeakenStep_AlwaysAggressive(st, i, aggressive, seed, d, weak, stretched) ==
    IF d > SETTINGS.clickTearRadius THEN st
    ELSE IF ~(d <= Min(SETTINGS.clickInnerBreakRadius, SETTINGS.clickTearRadius))
    THEN [world |-> weak, k |-> st.k]
    ELSE IF stretched
    THEN [world |-> forceBreak(weak, i), k |-> st.k]
    ELSE [world |-> IF ChanceBreak(Rand(seed, st.k), d,
                                   Min(SETTINGS.clickInnerBreakRadius,
                                       SETTINGS.clickTearRadius))
                    THEN forceBreak(weak, i) ELSE weak,
          k |-> st.k + 1]

\* the loop body for a live constraint at distance d from the pointer, after
\* st.k Math.random() calls: `weak` is the world after markWeak, `stretched` is
\* dist > c.rest * 1.22
WeakenStep(st, i, aggressive, seed, d, weak, stretched) ==
    IF d > SETTINGS.clickTearRadius THEN st
    ELSE IF ~(aggressive /\ d <= Min(SETTINGS.clickInnerBreakRadius, SETTINGS.clickTearRadius))
    THEN [world |-> weak, k |-> st.k]
    ELSE IF stretched
    THEN [world |-> forceBreak(weak, i), k |-> st.k]
    ELSE [world |-> IF ChanceBreak(Rand(seed, st.k), d,
                                   Min(SETTINGS.clickInnerBreakRadius,
                                       SETTINGS.clickTearRadius))
                    THEN forceBreak(weak, i) ELSE weak,
          k |-> st.k + 1]

\* one turn of the loop of weakenConstraintsNear, on constraints[i]
WeakenOne(st, i, x, y, aggressive, nowT, seed) ==
    IF st.world.constraints[i].broken THEN st
    ELSE WeakenStep(st, i, aggressive, seed,
                    MidDist(st.world.constraints[i], st.world.particles, x, y),
                    [st.world EXCEPT !.constraints[i] =
                                        markWeak(@, WeakThr, nowT + SETTINGS.weakenDurationMs)],
                    DistExceeds(100 * EndpointDist(st.world.constraints[i], st.world.particles),
                                st.world.constraints[i].rest * 122))

RECURSIVE WeakenLoop(_, _, _, _, _, _, _)
\* the loop of weakenConstraintsNear from constraint i on
WeakenLoop(st, i, x, y, aggressive, nowT, seed) ==
    IF i > Len(st.world.constraints) THEN st
    ELSE WeakenLoop(WeakenOne(st, i, x, y, aggressive, nowT, seed), i + 1, x, y, aggressive,
                    nowT, seed)

weakenConstraintsNear(ps, cs, x, y, aggressive, nowT, seed) ==
    WeakenLoop([world |-> [particles |-> ps, constraints |-> cs], k |-> 0], 1, x, y,
               aggressive, nowT, seed).world

----------------------------------------------------------------------------
(* Inputs *)

\* SETTINGS.gridCols x gridRows: the scaled-down lattice, and settings with
\* which no lattice can be built
GridChoices == { [cols |-> 3, rows |-> 3], [cols |-> 0, rows |-> -1] }

\* canvas.width x canvas.height after resizeCanvasToDisplaySize: 88 x 78 px,
\* which gives cells of 20 x 15 px (about the cell of the 52 x 34 lattice on a
\* full window), and a canvas narrower than twice the border padding (40 x 78 px)
CanvasChoices == { [width |-> 880, height |-> 780], [width |-> 400, height |-> 780] }

\* the states of the random generator a handler may start in
Seeds == {6, 46}

\* timestamp - lastTimestamp between frames: 8.3 ms, 23.3 ms, 4 s
Elapsed == {25, 70, 12000}

\* canvasPointFromEvent: the middle particle of the 3 x 3 lattice, and the
\* middle of the link above it
Points == { [x |-> 440, y |-> 390], [x |-> 440, y |-> 315] }

\* performance.now() when the page's script runs
StartTime == 300

NoFrame == [A |-> 0, n |-> 0, before |-> 0, ticks |-> <<>>]
NoScreen == [drawn |-> FALSE, links |-> <<>>, particleCount |-> 0, linkCount |-> 0]
NoScenario == [stretched |-> 0, particles |-> <<>>, constraints |-> <<>>]

----------------------------------------------------------------------------
(* Candle and jar: src/candle-jar.js *)
(* Numbers: oxygenInside in 1/OxygenOne, dt in ms, jarFactor in 1/100; speed *)
(* and diameters are the integers the inputs deliver, and every product is  *)
(* rounded to the nearest unit.  Of `state` the model                       *)
(* keeps the fields the flame and oxygen logic reads and writes; time,       *)
(* jar.placeAnim, the candles' flame, temperatureInside, waterRise and       *)
(* basin.waterLevel are written by step(dt) for drawing and read by none of  *)
(* the fields kept.  Of the frame timestamps only ts - lastTs is read, so    *)
(* lastTs is 0 before the first frame and FirstTs after it, and a frame is   *)
(* given by its distance to the one before.                                  *)

defaults == [candleCount |-> 3, jarDiameterPx |-> 320, speedMultiplier |-> 3]

\* oxygenInside 1.0
OxygenOne == 200

\* oxygenInside 0.03, at or below which a flame under the jar dies
OxygenOut == (3 * OxygenOne) \div 100

\* the values the candleCount input can deliver
CandleCounts == {0, 3}

\* the values the jarDiameter input can deliver: jarFactor 1, and 1.5 (clamped
\* from 2)
JarDiameters == {320, 160}

\* the values the speed input can deliver
Speeds == {3, 5}

\* ts - lastTs between frames, in ms: 25 ms, and 100 ms which tick cuts to 50
FrameGaps == {25, 100}

\* the timestamp of the first frame
FirstTs == 1

NoBurn == [dt |-> 0, died |-> 0]

initCandles(count) == [i \in 1 .. count |-> [lit |-> FALSE]]

\* parseInt(el.value, 10) || fallback
OrDefault(v, fallback) == IF v = 0 THEN fallback ELSE v

reset(st, ctl) ==
    [ candles      |-> initCandles(OrDefault(ctl.candleCount, defaults.candleCount)),
      jar          |-> [placed |-> FALSE,
                        diameter |-> OrDefault(ctl.jarDiameter, defaults.jarDiameterPx)],
      oxygenInside |-> OxygenOne,
      isLit        |-> FALSE,
      speed        |-> OrDefault(ctl.speed, defaults.speedMultiplier) ]

lightCandles(st) ==
    [st EXCEPT !.isLit = TRUE,
               !.candles = [i \in DOMAIN st.candles |-> [st.candles[i] EXCEPT !.lit = TRUE]]]

toggleJar(st) == [st EXCEPT !.jar.placed = ~st.jar.placed]

\* state.candles.filter(c => c.lit).length
activeFlames(st) == Cardinality({i \in DOMAIN st.candles : st.candles[i].lit})

\* clamp(320 / (state.jar.diameter + 1e-5), 0.5, 1.5)
jarFactor(diameter) == clamp(RDiv(32000, diameter), 50, 150)

\* the candle after its turn of the forEach of step
Flame(c, st) ==
    IF c.lit /\ st.jar.placed /\ st.oxygenInside <= OxygenOut THEN [c EXCEPT !.lit = FALSE] ELSE c

Consume_NoFlames(st, flames, dt) == st.oxygenInside

\* oxygenInside under the jar after a step of dt ms with `flames` active flames
Consume(st, flames, dt) ==
    clamp(st.oxygenInside
            - RDiv(flames * 8 * OxygenOne * dt * st.speed * jarFactor(st.jar.diameter),
                   10000000),
          0, OxygenOne)

\* oxygenInside in the open air after a step of dt ms
Replenish(st, dt) ==
    clamp(st.oxygenInside + RDiv((OxygenOne - st.oxygenInside) * 2 * dt * st.speed, 100000),
          0, OxygenOne)

step(st, dt) ==
    IF st.isLit
    THEN [st EXCEPT !.candles = [i \in DOMAIN st.candles |-> Flame(st.candles[i], st)],
                    !.oxygenInside = IF st.jar.placed
                                     THEN Consume(st, activeFlames(st), dt)
                                     ELSE Replenish(st, dt)]
    ELSE st

\* boot(): the inputs are seeded from the defaults, reset() runs and the first
\* frame is requested
Boot ==
    /\ controls = [candleCount |-> defaults.candleCount,
                   jarDiameter |-> defaults.jarDiameterPx,
                   speed |-> defaults.speedMultiplier]
    /\ state = reset([candles |-> <<>>], controls)
    /\ lastTs = 0
    /\ burn = NoBurn

----------------------------------------------------------------------------
(* The program *)

\* state after the script has run: resizeCanvasToDisplaySize() has sized the
\* canvas and built the lattice, and the first frame is requested
Init ==
    /\ grid \in GridChoices
    /\ canvas \in CanvasChoices
    /\ \E seed \in Seeds :
          /\ particles = buildGrid(grid.cols, grid.rows, canvas.width, canvas.height,
                                   seed).particles
          /\ constraints = buildGrid(grid.cols, grid.rows, canvas.width, canvas.height,
                                     seed).constraints
    /\ pulses = <<>>
    /\ showLinks = TRUE
    /\ lastTimestamp = 0
    /\ accumulatedMs = 0
    /\ isPointerDown = FALSE
    /\ now = StartTime
    /\ lastOp = "init"
    /\ frame = NoFrame
    /\ screen = NoScreen
    /\ weakCalls = <<>>
    /\ scenario = NoScenario
    /\ Boot
    /\ nFrames = 0 /\ nEvents = 0 /\ stepsSinceBuild = 0

\* animate(timestamp) from the while loop's exit on: r is the loop's outcome for
\* the accumulator A
AnimateEnd(timestamp, A, r) ==
    /\ now' = timestamp
    /\ lastTimestamp' = timestamp
    /\ accumulatedMs' = r.accumulatedMs
    /\ particles' = r.state.particles
    /\ constraints' = r.state.constraints
    /\ pulses' = r.state.pulses
    /\ frame' = [A |-> A, n |-> Len(r.ticks), before |-> accumulatedMs, ticks |-> r.ticks]
    /\ screen' = render(r.state.particles, r.state.constraints, showLinks)
    /\ stepsSinceBuild' = stepsSinceBuild + Len(r.ticks)

\* accumulatedMs += timestamp - lastTimestamp, after `if (!lastTimestamp)
\* lastTimestamp = timestamp`, then Math.min(accumulatedMs, maxFrameMs)
Accumulated(timestamp) ==
    Min(accumulatedMs + (timestamp - (IF lastTimestamp = 0 THEN timestamp ELSE lastTimestamp)),
        maxFrameMs)

\* animate(timestamp), the requestAnimationFrame callback, `elapsed` after the
\* previous clock reading
Animate(elapsed, seed) ==
    /\ nFrames < MaxFrames
    /\ AnimateEnd(now + elapsed, Accumulated(now + elapsed),
                  StepLoop([particles |-> particles, constraints |-> constraints,
                            pulses |-> pulses],
                           Accumulated(now + elapsed), now + elapsed,
                           canvas.width, canvas.height, seed, <<>>))
    /\ nFrames' = nFrames + 1
    /\ lastOp' = "animate"
    /\ UNCHANGED <<state, lastTs, controls, burn, scenario, grid, canvas, showLinks, isPointerDown, weakCalls, nEvents>>

\* a pointer handler's writes: w is what weakenConstraintsNear left
Weakened(w) == particles' = w.particles /\ constraints' = w.constraints

\* canvas 'pointerdown'
PointerDown(pt, seed) ==
    /\ nEvents < MaxEvents
    /\ Weakened(weakenConstraintsNear(particles, constraints, pt.x, pt.y, TRUE, now, seed))
    /\ isPointerDown' = TRUE
    /\ pulses' = addPulse(pulses, pt.x, pt.y, SETTINGS.pulseStrength, now)
    /\ nEvents' = nEvents + 1
    /\ lastOp' = "pointerdown"
    /\ UNCHANGED <<state, lastTs, controls, burn, scenario, grid, canvas, showLinks, lastTimestamp, accumulatedMs, now, frame,
                   screen, weakCalls, nFrames, stepsSinceBuild>>

\* canvas 'pointermove'
PointerMove(pt, seed) ==
    /\ nEvents < MaxEvents
    /\ IF ~isPointerDown
       THEN UNCHANGED <<particles, constraints, pulses>>
       ELSE /\ Weakened(weakenConstraintsNear(particles, constraints, pt.x, pt.y, FALSE,
                                              now, seed))
            /\ pulses' = addPulse(pulses, pt.x, pt.y,
                                  RDiv(SETTINGS.pulseStrength * 5, 10), now)
    /\ nEvents' = nEvents + 1
    /\ lastOp' = "pointermove"
    /\ UNCHANGED <<state, lastTs, controls, burn, scenario, grid, canvas, showLinks, lastTimestamp, accumulatedMs, isPointerDown, now,
                   frame, screen, weakCalls, nFrames, stepsSinceBuild>>

\* window 'pointerup' / 'pointercancel'
PointerUp ==
    /\ nEvents < MaxEvents
    /\ isPointerDown' = FALSE
    /\ nEvents' = nEvents + 1
    /\ lastOp' = "pointerup"
    /\ UNCHANGED <<state, lastTs, controls, burn, scenario, grid, canvas, particles, constraints, pulses, showLinks, lastTimestamp,
                   accumulatedMs, now, frame, screen, weakCalls, nFrames,
                   stepsSinceBuild>>

\* buildGrid()'s writes: g is the lattice it built
Built(g) == particles' = g.particles /\ constraints' = g.constraints

\* the reset button and the 'r' key: buildGrid()
Reset(seed) ==
    /\ nEvents < MaxEvents
    /\ Built(buildGrid(grid.cols, grid.rows, canvas.width, canvas.height, seed))
    /\ nEvents' = nEvents + 1
    /\ stepsSinceBuild' = 0
    /\ lastOp' = "reset"
    /\ UNCHANGED <<state, lastTs, controls, burn, scenario, grid, canvas, pulses, showLinks, lastTimestamp, accumulatedMs,
                   isPointerDown, now, frame, screen, weakCalls, nFrames>>

\* window 'resize': resizeCanvasToDisplaySize() with a display size that gives
\* canvas dimensions c
Resize(c, seed) ==
    /\ nEvents < MaxEvents
    /\ IF canvas.width # c.width \/ canvas.height # c.height
       THEN /\ canvas' = c
            /\ Built(buildGrid(grid.cols, grid.rows, c.width, c.height, seed))
            /\ stepsSinceBuild' = 0
       ELSE UNCHANGED <<canvas, particles, constraints, stepsSinceBuild>>
    /\ nEvents' = nEvents + 1
    /\ lastOp' = "resize"
    /\ UNCHANGED <<state, lastTs, controls, burn, scenario, grid, pulses, showLinks, lastTimestamp, accumulatedMs, isPointerDown,
                   now, frame, screen, weakCalls, nFrames>>

\* the links button and the 'l' key
ToggleLinks ==
    /\ nEvents < MaxEvents
    /\ showLinks' = ~showLinks
    /\ nEvents' = nEvents + 1
    /\ lastOp' = "toggle"
    /\ UNCHANGED <<state, lastTs, controls, burn, scenario, grid, canvas, particles, constraints, pulses, lastTimestamp,
                   accumulatedMs, isPointerDown, now, frame, screen, weakCalls, nFrames,
                   stepsSinceBuild>>

Next ==
    \/ \E e \in Elapsed, seed \in Seeds : Animate(e, seed)
    \/ \E pt \in Points, seed \in Seeds : PointerDown(pt, seed)
    \/ \E pt \in Points, seed \in Seeds : PointerMove(pt, seed)
    \/ PointerUp
    \/ \E seed \in Seeds : Reset(seed)
    \/ \E c \in CanvasChoices, seed \in Seeds : Resize(c, seed)
    \/ ToggleLinks

Spec == Init /\ [][Next]_vars

----------------------------------------------------------------------------
(* markWeak on its own: any proposed threshold and expiry, on a constraint of *)
(* the freshly built 3 x 3 lattice                                           *)

\* proposed thresholds (hundredths): below, at and above the floor of 118
WeakThresholds == {50, 100, 118, 130, 153, 200}

\* proposed expiries (timestamps)
WeakExpiries == {0, 200, 500, 1700, 3000}

\* timestamps at which the effective threshold is read
ReadTimes == WeakExpiries \cup {1, 501, 3001}

InitWeak ==
    /\ Init
    /\ grid = [cols |-> 3, rows |-> 3]
    /\ canvas = [width |-> 880, height |-> 780]

\* constraints[1].markWeak(t, e)
MarkWeakCall(t, e) ==
    /\ Len(weakCalls) < MaxWeakCalls
    /\ constraints' = [constraints EXCEPT ![1] = markWeak(@, t, e)]
    /\ weakCalls' = Append(weakCalls, [threshold |-> t, until |-> e])
    /\ lastOp' = "markWeak"
    /\ UNCHANGED <<state, lastTs, controls, burn, scenario, grid, canvas, particles, pulses, showLinks, lastTimestamp, accumulatedMs,
                   isPointerDown, now, frame, screen, nFrames, nEvents, stepsSinceBuild>>

NextWeak == \E t \in WeakThresholds, e \in WeakExpiries : MarkWeakCall(t, e)

SpecWeak == InitWeak /\ [][NextWeak]_vars

----------------------------------------------------------------------------
(* Claims *)

\* the lattice as buildGrid left it on this canvas (positions do not depend
\* on the random draws)
AsBuilt == buildGrid(grid.cols, grid.rows, canvas.width, canvas.height, 0).particles

\* C1: every pinned particle is where buildGrid put it, whatever ticks and
\* pointer events followed the build
C1_PinnedInvariance ==
    \A n \in DOMAIN particles :
        particles[n].pinned =>
            /\ particles[n].positionX = AsBuilt[n].positionX
            /\ particles[n].positionY = AsBuilt[n].positionY

\* the effective break threshold of an evaluated constraint at time nowTs, from
\* the fields satisfy read
EffectiveThreshold(e, nowTs) ==
    IF nowTs <= e.weakUntilTs /\ e.weakThreshold # NULL THEN e.weakThreshold ELSE e.base

\* the satisfy calls of frame f: <<tick, pass, call>>
Evaluations(f) ==
    { tpk \in (DOMAIN f.ticks) \X (1 .. SETTINGS.constraintIterations) \X (1 .. 24) :
        tpk[3] <= Len(f.ticks[tpk[1]].passes[tpk[2]].evals) }

\* what satisfy saw in call tpk of frame f
Evaluation(f, tpk) == f.ticks[tpk[1]].passes[tpk[2]].evals[tpk[3]]

\* constraint i stays in the list and goes from live to broken in this step
BreaksInStep(i) ==
    /\ Len(constraints') = Len(constraints)
    /\ ~constraints[i].broken
    /\ constraints'[i].broken

\* C2 as stated: whatever operation marks a constraint broken, the constraint's
\* endpoint distance then exceeds its rest length times its effective threshold
C2_Original ==
    [][\A i \in DOMAIN constraints :
          BreaksInStep(i) =>
              DistExceeds(100 * EndpointDist(constraints[i], particles),
                          constraints[i].rest * getCurrentBreakThreshold(constraints'[i], now))]_vars

\* C2 amended: a constraint evaluated by satisfy in a relaxation pass becomes
\* broken if and only if its endpoint distance exceeds L*T at that time, and a
\* frame's ticks remove exactly the constraints so broken and those already broken;
\* the only other operation that marks a constraint broken is pointer-down
C2_FractureThreshold ==
    [][/\ \A tpk \in Evaluations(frame') :
             Evaluation(frame', tpk).broke <=>
                 DistExceeds(100 * Evaluation(frame', tpk).dist,
                             Evaluation(frame', tpk).rest
                               * EffectiveThreshold(Evaluation(frame', tpk),
                                                    frame'.ticks[tpk[1]].nowTs))
       /\ (lastOp' = "animate" /\ frame'.n > 0) =>
             Len(constraints) - Len(constraints')
               = Cardinality({i \in DOMAIN constraints : constraints[i].broken})
                 + Cardinality({tpk \in Evaluations(frame') : Evaluation(frame', tpk).broke})
       /\ (\E i \in DOMAIN constraints : BreaksInStep(i)) => lastOp' = "pointerdown"]_vars

\* a tick on the full-size canvas in which satisfy broke one constraint and
\* held another that was stretched beyond its rest length
C2_Witness ==
    /\ lastOp = "animate"
    /\ canvas.width = 880
    /\ \E tpk \in Evaluations(frame) : Evaluation(frame, tpk).broke
    /\ \E tpk \in Evaluations(frame) :
          /\ ~Evaluation(frame, tpk).broke
          /\ Evaluation(frame, tpk).dist > Evaluation(frame, tpk).rest

\* C3: whatever markWeak calls were made, the effective break threshold of
\* every constraint, read at any time, is at least SETTINGS.minWeakThreshold
C3_ThresholdFloor ==
    \A i \in DOMAIN constraints : \A ts \in ReadTimes :
        getCurrentBreakThreshold(constraints[i], ts) >= SETTINGS.minWeakThreshold

\* a markWeak below the floor has been applied and its window is open at some
\* read time, where the effective threshold is the floor itself
C3_Witness ==
    /\ Len(weakCalls) >= 1
    /\ \E k \in DOMAIN weakCalls : weakCalls[k].threshold < SETTINGS.minWeakThreshold
    /\ \E ts \in ReadTimes :
          /\ ts <= constraints[1].weakUntilTs
          /\ getCurrentBreakThreshold(constraints[1], ts) = SETTINGS.minWeakThreshold

\* the two calls of the claim: the first has the lower threshold and the later expiry
OrderedPair(c1, c2) == c1.threshold < c2.threshold /\ c1.until > c2.until

\* C4 as stated: two markWeak calls with t1 < t2 and e1 > e2, in either order,
\* leave the stored threshold t1 and the expiry e1
C4_Original ==
    Len(weakCalls) = 2 =>
        /\ OrderedPair(weakCalls[1], weakCalls[2]) =>
              /\ constraints[1].weakThreshold = weakCalls[1].threshold
              /\ constraints[1].weakUntilTs = weakCalls[1].until
        /\ OrderedPair(weakCalls[2], weakCalls[1]) =>
              /\ constraints[1].weakThreshold = weakCalls[2].threshold
              /\ constraints[1].weakUntilTs = weakCalls[2].until

\* the proposed threshold as markWeak stores it
Floored(t) == IF t < SETTINGS.minWeakThreshold THEN SETTINGS.minWeakThreshold ELSE t

\* C4 amended: after markWeak calls on a fresh constraint the stored threshold
\* is the least of the proposed thresholds, each raised to the floor, and the
\* expiry the greatest proposed expiry; so two calls with t1 < t2 and e1 > e2,
\* in either order, leave max(t1, floor) and e1
C4_WeakenComposition ==
    /\ Len(weakCalls) = 0 =>
          constraints[1].weakThreshold = NULL /\ constraints[1].weakUntilTs = 0
    /\ Len(weakCalls) >= 1 =>
          /\ \E k \in DOMAIN weakCalls :
                constraints[1].weakThreshold = Floored(weakCalls[k].threshold)
          /\ \A k \in DOMAIN weakCalls :
                constraints[1].weakThreshold <= Floored(weakCalls[k].threshold)
          /\ \E k \in DOMAIN weakCalls : constraints[1].weakUntilTs = weakCalls[k].until
          /\ \A k \in DOMAIN weakCalls : constraints[1].weakUntilTs >= weakCalls[k].until
    /\ \A j, k \in DOMAIN weakCalls :
          (Len(weakCalls) = 2 /\ j # k /\ OrderedPair(weakCalls[j], weakCalls[k])) =>
              /\ constraints[1].weakThreshold = Floored(weakCalls[j].threshold)
              /\ constraints[1].weakUntilTs = weakCalls[j].until

\* the higher threshold and earlier expiry came first, both above the floor,
\* and the second call lowered the threshold and extended the expiry
C4_Witness ==
    /\ Len(weakCalls) = 2
    /\ OrderedPair(weakCalls[2], weakCalls[1])
    /\ weakCalls[2].threshold > SETTINGS.minWeakThreshold
    /\ constraints[1].weakThreshold = weakCalls[2].threshold
    /\ constraints[1].weakUntilTs = weakCalls[2].until

\* the passes of frame f: <<tick, pass>>
PassesOf(f) == (DOMAIN f.ticks) \X (1 .. SETTINGS.constraintIterations)

\* the constraints pass ps left live
LiveAfter(ps) == {i \in DOMAIN ps.after : ~ps.after[i].broken}

\* C5: a relaxation pass breaks at most maxBreaksPerStep constraints; the
\* constraints it did not reach keep their state, stay in the list, and the
\* next pass evaluates each of them unless it stops before reaching it
C5_BreakCapPerPass ==
    /\ \A tp \in PassesOf(frame) :
          LET ps == frame.ticks[tp[1]].passes[tp[2]]
          IN  /\ ps.breaks <= SETTINGS.maxBreaksPerStep
              /\ \A i \in DOMAIN ps.before : i > ps.reached => ps.after[i] = ps.before[i]
              /\ tp[2] < SETTINGS.constraintIterations =>
                    /\ frame.ticks[tp[1]].passes[tp[2] + 1].before = ps.after
                    /\ \A i \in DOMAIN ps.before :
                          (/\ i > ps.reached
                           /\ ~ps.before[i].broken
                           /\ i <= frame.ticks[tp[1]].passes[tp[2] + 1].reached)
                          => \E k \in DOMAIN frame.ticks[tp[1]].passes[tp[2] + 1].evals :
                                frame.ticks[tp[1]].passes[tp[2] + 1].evals[k].i = i
              /\ (tp[2] = SETTINGS.constraintIterations /\ tp[1] < Len(frame.ticks)) =>
                    Len(frame.ticks[tp[1] + 1].passes[1].before) = Cardinality(LiveAfter(ps))
    /\ (lastOp = "animate" /\ frame.n > 0) =>
          Len(constraints)
            = Cardinality(LiveAfter(frame.ticks[frame.n].passes[SETTINGS.constraintIterations]))

\* a pass on the full-size canvas stopped at the cap, and a constraint it had
\* not reached was broken by a later pass of the same tick
C5_Witness ==
    /\ canvas.width = 880
    /\ \E tp \in PassesOf(frame) : \E q \in 1 .. SETTINGS.constraintIterations :
          /\ q > tp[2]
          /\ frame.ticks[tp[1]].passes[tp[2]].breaks = SETTINGS.maxBreaksPerStep
          /\ \E k \in DOMAIN frame.ticks[tp[1]].passes[q].evals :
                /\ frame.ticks[tp[1]].passes[q].evals[k].i > frame.ticks[tp[1]].passes[tp[2]].reached
                /\ frame.ticks[tp[1]].passes[q].evals[k].broke

\* C6: a frame with A = min(accumulator + elapsed, maxFrameMs) runs
\* floor(A / fixedDt) ticks, each with dt = fixedDt, and leaves the accumulator
\* at A - n * fixedDt, in [0, fixedDt); so no frame runs more than
\* floor(maxFrameMs / fixedDt) ticks
C6_FixedStep ==
    [][lastOp' = "animate" =>
          LET A == Min(accumulatedMs
                         + (now' - (IF lastTimestamp = 0 THEN now' ELSE lastTimestamp)),
                       maxFrameMs)
              n == A \div fixedDt
          IN  /\ Len(frame'.ticks) = n
              /\ \A t \in DOMAIN frame'.ticks : frame'.ticks[t].dtMs = fixedDt
              /\ accumulatedMs' = A - n * fixedDt
              /\ accumulatedMs' >= 0 /\ accumulatedMs' < fixedDt
              /\ n <= maxFrameMs \div fixedDt
              /\ stepsSinceBuild' = stepsSinceBuild + n]_vars

\* a frame that started from a carried remainder, ran a tick and carried a
\* remainder on
C6_Witness ==
    /\ lastOp = "animate"
    /\ frame.before > 0
    /\ frame.n >= 1
    /\ accumulatedMs > 0

\* the constraints of a list, by their endpoints
Members(cs) == [i \in DOMAIN cs |-> <<cs[i].a, cs[i].b>>]

\* the broken flags of a list
Broken(cs) == [i \in DOMAIN cs |-> cs[i].broken]

\* C7 as stated: positions, broken flags and the membership of the constraint
\* list change only in a tick (or a rebuild); a pointer event leaves them as
\* they were
C7_Original ==
    [][(\/ Positions(particles') # Positions(particles)
        \/ Broken(constraints') # Broken(constraints)
        \/ Members(constraints') # Members(constraints))
       => lastOp' \in {"animate", "reset", "resize"}]_vars

\* C7 amended: the membership of the constraint list changes only in a tick
\* (or a rebuild); pointer-move and pointer-up leave every position and broken
\* flag unchanged; pointer-down force-breaks at once: it may set broken flags
\* and displace free particles, never a pinned one, and clears no flag
C7_MutationSites ==
    [][/\ Members(constraints') # Members(constraints)
             => lastOp' \in {"animate", "reset", "resize"}
       /\ lastOp' \in {"pointermove", "pointerup", "toggle"} =>
             /\ Positions(particles') = Positions(particles)
             /\ Broken(constraints') = Broken(constraints)
       /\ lastOp' = "pointerdown" =>
             /\ \A n \in DOMAIN particles :
                   particles[n].pinned => Positions(particles')[n] = Positions(particles)[n]
             /\ \A i \in DOMAIN constraints :
                   constraints[i].broken => constraints'[i].broken]_vars

\* a pointer-move with the pointer down has weakened constraints of a lattice
\* that an earlier pointer-down had torn
C7_Witness ==
    /\ lastOp = "pointermove"
    /\ isPointerDown
    /\ \E i \in DOMAIN constraints : constraints[i].broken
    /\ \E i \in DOMAIN constraints :
          ~constraints[i].broken /\ constraints[i].weakThreshold # NULL
    /\ Len(pulses) >= 2

\* C8: what render() last read of the constraint list holds no broken
\* constraint, and the link count it displayed is the number of live constraints
C8_LiveOutput ==
    lastOp = "animate" =>
        /\ \A i \in DOMAIN screen.links : ~screen.links[i].broken
        /\ screen.linkCount = Len(RemoveBroken(constraints))

\* tick tk ran with one live pulse, of positive strength, exactly on the free
\* particle n
PulseOnParticle(tk, n) ==
    /\ Len(tk.pulsesLive) = 1
    /\ tk.pulsesLive[1].strength > 0
    /\ ~particles[n].pinned
    /\ tk.start[n] = <<tk.pulsesLive[1].x, tk.pulsesLive[1].y>>

\* C9 as stated: a pulse exactly on a free particle gives it a nonzero
\* acceleration, and the tick leaves it elsewhere than the same tick without
\* the pulse
C9_Original ==
    \A t \in DOMAIN frame.ticks : \A n \in DOMAIN frame.ticks[t].start :
        PulseOnParticle(frame.ticks[t], n) =>
            /\ frame.ticks[t].pulseAccel[n] # <<0, 0>>
            /\ frame.ticks[t].integrated[n] # frame.ticks[t].integratedNoPulse[n]

\* C9 amended: a pulse exactly on a free particle gives it no acceleration
\* (at zero distance the outward direction is the zero vector), and the tick
\* leaves it where the same tick without the pulse leaves it
C9_NoPushAtOrigin ==
    \A t \in DOMAIN frame.ticks : \A n \in DOMAIN frame.ticks[t].start :
        PulseOnParticle(frame.ticks[t], n) =>
            /\ frame.ticks[t].pulseAccel[n] = <<0, 0>>
            /\ frame.ticks[t].integrated[n] = frame.ticks[t].integratedNoPulse[n]

\* a tick ran with a pulse exactly on the free particle, which the tick moved
C9_Witness ==
    \E t \in DOMAIN frame.ticks : \E n \in DOMAIN frame.ticks[t].start :
        /\ PulseOnParticle(frame.ticks[t], n)
        /\ frame.ticks[t].integrated[n] # frame.ticks[t].start[n]

\* C10: with grid columns or rows that give no lattice, no tick runs on what
\* buildGrid left
C10_FailFast == (grid.cols <= 0 \/ grid.rows <= 0) => stepsSinceBuild = 0

\* particle p lies in the inset rectangle of the canvas
InDomain(p) ==
    /\ p.positionX >= SETTINGS.borderPadding
    /\ p.positionX <= canvas.width - SETTINGS.borderPadding
    /\ p.positionY >= SETTINGS.borderPadding
    /\ p.positionY <= canvas.height - SETTINGS.borderPadding

\* C11: after every completed tick and after every pointer event, every
\* particle lies in [borderPadding, width - borderPadding] x
\* [borderPadding, height - borderPadding]
C11_NoEscape ==
    (\/ lastOp \in {"pointerdown", "pointermove", "pointerup"}
     \/ (lastOp = "animate" /\ frame.n > 0))
    => \A n \in DOMAIN particles : InDomain(particles[n])

----------------------------------------------------------------------------
(* The single-break scenario: the 3 x 3 lattice on the 88 x 78 px canvas with *)
(* exactly one constraint stretched to 1.9 x its rest length, then the       *)
(* relaxation of stepSimulation (its passes and its filter) on its own       *)

\* the lattice of the scenario, at rest
ScenarioLattice == buildGrid(3, 3, 880, 780, 0)

\* the lattice with the rest length of constraint i cut to dist / 1.9
Shortened(w, i) ==
    [w EXCEPT !.constraints[i].rest =
                 RDiv(100 * EndpointDist(w.constraints[i], w.particles), 190)]

\* the lattice with the free middle particle held at (x, y)
Displaced(w, x, y) ==
    [w EXCEPT !.particles[5].positionX = x, !.particles[5].positionY = y,
              !.particles[5].previousX = x, !.particles[5].previousY = y]

\* where the middle particle may be held
ScenarioXs == {140 + 5 * k : k \in 0 .. 120}
ScenarioYs == {140 + 5 * k : k \in 0 .. 100}

\* constraint c is stretched to 1.9 x its rest length (to the unit)
StretchedTo19(c, dist) == 189 * c.rest <= 100 * dist /\ 100 * dist <= 193 * c.rest

\* in world w constraint i is stretched to 1.9 x and every other constraint
\* is at or below the break threshold 1.8
SingleStretch(w, i) ==
    /\ StretchedTo19(w.constraints[i], EndpointDist(w.constraints[i], w.particles))
    /\ \A k \in DOMAIN w.constraints :
          k # i => ~DistExceeds(100 * EndpointDist(w.constraints[k], w.particles),
                                w.constraints[k].rest * w.constraints[k].breakThresholdBase)

\* the worlds of the scenario in which constraint i is the stretched one
ScenarioWorlds(i) ==
    {w \in {Shortened(ScenarioLattice, i)}
             \cup {Displaced(ScenarioLattice, x, y) : x \in ScenarioXs, y \in ScenarioYs} :
        SingleStretch(w, i)}

InitScenario ==
    /\ grid = [cols |-> 3, rows |-> 3]
    /\ canvas = [width |-> 880, height |-> 780]
    /\ \E i \in DOMAIN ScenarioLattice.constraints : \E w \in ScenarioWorlds(i) :
          /\ particles = w.particles
          /\ constraints = w.constraints
          /\ scenario = [stretched |-> i, particles |-> w.particles,
                         constraints |-> w.constraints]
    /\ pulses = <<>>
    /\ showLinks = TRUE
    /\ lastTimestamp = 0
    /\ accumulatedMs = 0
    /\ isPointerDown = FALSE
    /\ now = StartTime
    /\ lastOp = "init"
    /\ frame = NoFrame
    /\ screen = NoScreen
    /\ weakCalls = <<>>
    /\ Boot
    /\ nFrames = 0 /\ nEvents = 0 /\ stepsSinceBuild = 0

\* the writes of the relaxation: r is what the passes left
Relaxed(r) ==
    /\ particles' = r.world.particles
    /\ constraints' = RemoveBroken(r.world.constraints)

\* the relaxation passes of stepSimulation and its filter
RelaxCall ==
    /\ lastOp = "init"
    /\ Relaxed(Relax([particles |-> particles, constraints |-> constraints], 0, now, <<>>))
    /\ lastOp' = "relax"
    /\ UNCHANGED <<state, lastTs, controls, burn, scenario, grid, canvas, pulses, showLinks, lastTimestamp, accumulatedMs,
                   isPointerDown, now, frame, screen, weakCalls, nFrames, nEvents,
                   stepsSinceBuild>>

NextScenario == RelaxCall

SpecScenario == InitScenario /\ [][NextScenario]_vars

\* the stretched constraint of the scenario
TheStretched == scenario.constraints[scenario.stretched]

\* the stretched constraint is no longer in the list
StretchedRemoved ==
    \A k \in DOMAIN constraints :
        <<constraints[k].a, constraints[k].b>> # <<TheStretched.a, TheStretched.b>>

\* C12 as stated: the relax call removes the stretched constraint and the
\* live constraint count goes down by exactly one
C12_Original ==
    lastOp = "relax" =>
        /\ StretchedRemoved
        /\ Len(constraints) = Len(scenario.constraints) - 1

\* constraint k of the scenario cannot move a particle before the pass
\* reaches the stretched one: it joins pinned particles or is at rest
Still(k) ==
    \/ (scenario.particles[scenario.constraints[k].a].pinned
        /\ scenario.particles[scenario.constraints[k].b].pinned)
    \/ EndpointDist(scenario.constraints[k], scenario.particles) = scenario.constraints[k].rest

\* C12 amended: the relax call breaks and removes the stretched constraint
\* when no constraint before it in the list moves a particle first; whenever
\* it is removed the live count goes down by at least one, and by exactly one
\* if both its endpoints are pinned (no tear impulse) and every other
\* constraint is at rest; when it survives, it is still in the list, unbroken
C12_SingleBreak ==
    lastOp = "relax" =>
        /\ (\A k \in 1 .. scenario.stretched - 1 : Still(k)) => StretchedRemoved
        /\ StretchedRemoved => Len(constraints) <= Len(scenario.constraints) - 1
        /\ (/\ StretchedRemoved
            /\ scenario.particles[TheStretched.a].pinned
            /\ scenario.particles[TheStretched.b].pinned
            /\ \A k \in DOMAIN scenario.constraints : k # scenario.stretched => Still(k))
           => Len(constraints) = Len(scenario.constraints) - 1
        /\ ~StretchedRemoved =>
              \E k \in DOMAIN constraints :
                  /\ <<constraints[k].a, constraints[k].b>> = <<TheStretched.a, TheStretched.b>>
                  /\ ~constraints[k].broken
        /\ \A k \in DOMAIN constraints : ~constraints[k].broken

\* the stretched constraint held the free particle; the relax call broke it
\* and the tear impulse took further constraints with it
C12_Witness ==
    /\ lastOp = "relax"
    /\ ~scenario.particles[TheStretched.b].pinned
    /\ StretchedRemoved
    /\ Len(constraints) < Len(scenario.constraints) - 1

\* pulse pu is younger than 6 half-lives at time nowTs
Young(pu, nowTs) == nowTs - pu.createdAt < 6 * SETTINGS.pulseHalfLifeMs

\* the indices of the young pulses of list pus at time nowTs
YoungAt(pus, nowTs) == {k \in DOMAIN pus : Young(pus[k], nowTs)}

\* C13: a tick leaves exactly the pulses it found that are younger than
\* 6 x pulseHalfLifeMs, in their order; these alone push the particles in the
\* tick; the next tick starts from them, and the frame leaves them in the list
C13_PulseCulling ==
    /\ \A t \in DOMAIN frame.ticks :
          LET tk == frame.ticks[t]
              young == YoungAt(tk.pulsesBefore, tk.nowTs)
          IN  /\ Len(tk.pulsesLive) = Cardinality(young)
              /\ \A k \in young :
                    tk.pulsesLive[Cardinality({m \in young : m <= k})] = tk.pulsesBefore[k]
              /\ young = {} =>
                    /\ \A n \in DOMAIN tk.pulseAccel : tk.pulseAccel[n] = <<0, 0>>
                    /\ tk.integrated = tk.integratedNoPulse
              /\ t < Len(frame.ticks) => frame.ticks[t + 1].pulsesBefore = tk.pulsesLive
    /\ (lastOp = "animate" /\ frame.n > 0) =>
          /\ pulses = frame.ticks[frame.n].pulsesLive
          /\ \A k \in DOMAIN pulses : Young(pulses[k], now)

\* a tick found an old pulse and a young one: it dropped the first and kept
\* the second
C13_Witness ==
    \E t \in DOMAIN frame.ticks :
        /\ Len(frame.ticks[t].pulsesBefore) = 2
        /\ ~Young(frame.ticks[t].pulsesBefore[1], frame.ticks[t].nowTs)
        /\ Young(frame.ticks[t].pulsesBefore[2], frame.ticks[t].nowTs)
        /\ frame.ticks[t].pulsesLive = <<frame.ticks[t].pulsesBefore[2]>>

\* the breaks of tick tk: the sum over its passes
RECURSIVE BreaksFrom(_, _)
BreaksFrom(tk, p) ==
    IF p > Len(tk.passes) THEN 0 ELSE tk.passes[p].breaks + BreaksFrom(tk, p + 1)

\* C14: one stepSimulation call, all its passes together, breaks at most
\* SETTINGS.maxBreaksPerStep constraints
C14_BreakCapPerStep ==
    \A t \in DOMAIN frame.ticks : BreaksFrom(frame.ticks[t], 1) <= SETTINGS.maxBreaksPerStep

\* the number of live constraints of a list
LiveCount(cs) == Cardinality({k \in DOMAIN cs : ~cs[k].broken})

\* C16: in a step that is no rebuild, every constraint of the list was in it
\* before, none that was broken is live again, and the number of live
\* constraints does not grow; a pointer-down that breaks nothing moves
\* nothing and a pass never evaluates a broken constraint, so a constraint
\* is torn once; a rebuild restores the full lattice
C16_FractureIrreversible ==
    [][/\ ~(lastOp' = "reset" \/ (lastOp' = "resize" /\ canvas' # canvas)) =>
             /\ \A k \in DOMAIN constraints' : \E j \in DOMAIN constraints :
                   /\ Members(constraints)[j] = Members(constraints')[k]
                   /\ constraints[j].broken => constraints'[k].broken
             /\ Len(constraints') <= Len(constraints)
             /\ LiveCount(constraints') <= LiveCount(constraints)
       /\ (lastOp' = "pointerdown" /\ ~\E i \in DOMAIN constraints : BreaksInStep(i)) =>
             Positions(particles') = Positions(particles)
       /\ \A tp \in PassesOf(frame') :
             \A k \in DOMAIN frame'.ticks[tp[1]].passes[tp[2]].evals :
                 ~frame'.ticks[tp[1]].passes[tp[2]].before[
                     frame'.ticks[tp[1]].passes[tp[2]].evals[k].i].broken
       /\ lastOp' = "reset" =>
             /\ Len(constraints') = Len(buildGrid(grid.cols, grid.rows, canvas.width,
                                                  canvas.height, 0).constraints)
             /\ LiveCount(constraints') = Len(constraints')]_vars

\* a tick started with a constraint that a pointer-down had broken, and left
\* fewer constraints than the lattice was built with
C16_Witness ==
    /\ lastOp = "animate"
    /\ frame.n > 0
    /\ canvas.width = 880
    /\ \E i \in DOMAIN frame.ticks[1].passes[1].before :
          frame.ticks[1].passes[1].before[i].broken
    /\ Len(constraints) < Len(frame.ticks[1].passes[1].before)

----------------------------------------------------------------------------
(* Candle and jar: the handlers *)

InitCandle ==
    /\ Init
    /\ grid = [cols |-> 3, rows |-> 3]
    /\ canvas = [width |-> 880, height |-> 780]

\* what the handlers of candle-jar.js leave alone
PepperUnchanged ==
    UNCHANGED <<grid, canvas, particles, constraints, pulses, showLinks, lastTimestamp,
                accumulatedMs, isPointerDown, now, frame, screen, weakCalls, scenario,
                nFrames, nEvents, stepsSinceBuild>>

\* tick(ts) for a frame `gap` ms after the one before; the first frame finds
\* lastTs unset and steps by 0
Tick(gap) ==
    /\ lastTs' = FirstTs
    /\ state' = step(state, IF lastTs = 0 THEN 0 ELSE Min(50, gap))
    /\ burn' = [dt |-> IF lastTs = 0 THEN 0 ELSE Min(50, gap),
                died |-> activeFlames(state) - activeFlames(state')]
    /\ lastOp' = "tick"
    /\ UNCHANGED controls
    /\ PepperUnchanged

\* click on btnLight
LightCandles ==
    /\ state' = lightCandles(state)
    /\ lastOp' = "lightCandles"
    /\ burn' = NoBurn
    /\ UNCHANGED <<lastTs, controls>>
    /\ PepperUnchanged

\* click on btnJar
ToggleJar ==
    /\ state' = toggleJar(state)
    /\ lastOp' = "toggleJar"
    /\ burn' = NoBurn
    /\ UNCHANGED <<lastTs, controls>>
    /\ PepperUnchanged

\* click on btnReset
HardReset ==
    /\ state' = reset(state, controls)
    /\ lastOp' = "reset"
    /\ burn' = NoBurn
    /\ UNCHANGED <<lastTs, controls>>
    /\ PepperUnchanged

\* input on candleCount
CandleCountInput(n) ==
    /\ controls' = [controls EXCEPT !.candleCount = n]
    /\ state' = [state EXCEPT !.candles = initCandles(n)]
    /\ lastOp' = "candleCount"
    /\ burn' = NoBurn
    /\ UNCHANGED lastTs
    /\ PepperUnchanged

\* input on jarDiameter
JarDiameterInput(d) ==
    /\ controls' = [controls EXCEPT !.jarDiameter = d]
    /\ state' = [state EXCEPT !.jar.diameter = d]
    /\ lastOp' = "jarDiameter"
    /\ burn' = NoBurn
    /\ UNCHANGED lastTs
    /\ PepperUnchanged

\* input on speed
SpeedInput(v) ==
    /\ controls' = [controls EXCEPT !.speed = v]
    /\ state' = [state EXCEPT !.speed = v]
    /\ lastOp' = "speed"
    /\ burn' = NoBurn
    /\ UNCHANGED lastTs
    /\ PepperUnchanged

Frame == \E gap \in FrameGaps : Tick(gap)

NextCandle ==
    \/ Frame
    \/ LightCandles
    \/ ToggleJar
    \/ HardReset
    \/ \E n \in CandleCounts : CandleCountInput(n)
    \/ \E d \in JarDiameters : JarDiameterInput(d)
    \/ \E v \in Speeds : SpeedInput(v)

\* tick ends with requestAnimationFrame(tick): a frame always comes
SpecCandle == InitCandle /\ [][NextCandle]_vars /\ WF_vars(Frame)

\* some candle burns
CandlesLit == \E i \in DOMAIN state.candles : state.candles[i].lit

\* C15 as stated: once the candles have been lit and the jar is placed and stays
\* placed, with at least one candle, oxygenInside eventually drops to 0.03 or below
C15_Original ==
    (state.isLit /\ state.jar.placed /\ Len(state.candles) >= 1)
        ~> (state.oxygenInside <= OxygenOut \/ ~state.jar.placed \/ Len(state.candles) = 0)

\* C15: while a candle burns under the placed jar, oxygenInside eventually drops
\* to 0.03 or below, and in the step that finds it there every flame dies; a flame
\* dies in a step only under the placed jar at 0.03 or below, a candle is unlit
\* otherwise only by being replaced (candleCount input, reset), and a candle is
\* lit by lightCandles only
C15_Extinction ==
    /\ (CandlesLit /\ state.jar.placed)
          ~> (state.oxygenInside <= OxygenOut \/ ~state.jar.placed \/ ~CandlesLit)
    /\ (CandlesLit /\ state.jar.placed /\ state.oxygenInside <= OxygenOut)
          ~> (~CandlesLit \/ ~state.jar.placed)
    /\ [][ /\ (CandlesLit /\ ~CandlesLit') =>
                 \/ lastOp' \in {"candleCount", "reset"}
                 \/ lastOp' = "tick" /\ state.jar.placed /\ state.oxygenInside <= OxygenOut
           /\ (lastOp' = "tick" /\ CandlesLit /\ state.jar.placed
                 /\ state.oxygenInside <= OxygenOut) => ~CandlesLit'
           /\ (\E i \in DOMAIN state'.candles :
                  /\ state'.candles[i].lit
                  /\ ~(i \in DOMAIN state.candles /\ state.candles[i].lit)) =>
                 lastOp' = "lightCandles" ]_vars

\* a step under the placed jar found oxygenInside at 0.03 or below and put the
\* flames out
C15_Witness ==
    /\ lastOp = "tick"
    /\ burn.dt > 0 /\ burn.died >= 1 /\ state.oxygenInside <= OxygenOut
    /\ state.isLit /\ state.jar.placed /\ state.speed > 0
    /\ Len(state.candles) >= 1 /\ ~CandlesLit

====
